---- MODULE Spec2Model ----
(***************************************************************************)
(* A model of docx_processor/processor.py: the four-stage pipeline         *)
(* load -> choose_table -> extract_transactions -> export_to_excel and the *)
(* row transforms it is configured with.                                   *)
(*                                                                         *)
(* Text is a sequence of one-character strings, so split / join / strip /  *)
(* isdigit act on characters as the Python string methods do.  A Cell is a *)
(* record tagged "str" or "float".  Row indices are 0-based as in the      *)
(* source; a TLA+ sequence is read at index + 1.                           *)
(***************************************************************************)
EXTENDS Integers, Sequences, FiniteSets, TLC

VARIABLES
    pc,            \* position of the running function / of main
    cfg,           \* the configuration records handed to the stages
    file,          \* what the input path holds (kind of archive, its tables)
    document,      \* value returned by the loading strategy
    table,         \* the Table handed to extract_transactions
    header,        \* extract_transactions: local header
    footer,        \* extract_transactions: local footer
    i,             \* extract_transactions: loop index (0-based)
    transactions,  \* extract_transactions: accumulator
    result,        \* the Table extract_transactions returned
    err,           \* the exception that left the running function (or NoErr)
    calls,         \* strategies invoked so far: <<name, row index>>
    reads,         \* table indices read by the pairing loop
    written,       \* what export wrote to the output path (or NotWritten)
    ret,           \* main's return value (-1 while running)
    stages,        \* stages main has invoked, in order
    uin,           \* unit runs: the arguments of the function under test
    uout,          \* unit runs: its outcome
    gui            \* the window of gui.py: fields, button, workers, event queue

vars == <<pc, cfg, file, document, table, header, footer, i, transactions,
          result, err, calls, reads, written, ret, stages, uin, uout, gui>>

----------------------------------------------------------------------------
(* Bounds of the model *)

MaxLen == 5        \* longest cell text enumerated for the parser
MaxFields == 4     \* largest field_count enumerated
MaxRows == 5       \* longest table handed to extract_transactions
MaxHF == 2         \* largest header_len and footer_len
MaxTables == 3     \* most tables of a document handed to choose_table
MaxDocRows == 4    \* most rows of the table main processes
MaxDocHF == 1      \* largest header_len and footer_len main runs with

----------------------------------------------------------------------------
(* Cells, errors, outcomes *)

Str(s) == [t |-> "str", s |-> s, m |-> 0, e |-> 0]

\* the float m * 10^-e
Flt(m, e) == [t |-> "float", s |-> <<>>, m |-> m, e |-> e]

IsStr(c) == c.t = "str"

\* Python truthiness of a Cell: "" and 0.0 are falsy
Truthy(c) == IF IsStr(c) THEN c.s # <<>> ELSE c.m # 0

NoErr == [cls |-> "none", msg |-> <<>>, row |-> -1]

\* an exception of class cls; msg is the message as its parts, outermost
\* prefix first; row is the index the message text carries (-1: none)
Error(cls, msg, row) == [cls |-> cls, msg |-> msg, row |-> row]

\* raise cls(f"{prefix}: {str(e)}"): a new exception whose message embeds e's
Wrap(cls, prefix, e, row) == [cls |-> cls, msg |-> <<prefix>> \o e.msg, row |-> row]

Ok(v) == [ok |-> TRUE, val |-> v, err |-> NoErr]

Raise(e) == [ok |-> FALSE, val |-> <<>>, err |-> e]

DomainClasses == {"DocumentLoadingError", "TableProcessingError", "ExportError"}

----------------------------------------------------------------------------
(* str methods *)

Digits == {"0", "1", "2"}

\* str.isdigit(): non-empty and every character a digit
IsDigit(s) == s # <<>> /\ \A k \in 1..Len(s) : s[k] \in Digits

RECURSIVE SplitFrom(_, _, _)
\* s.split(" ") continued at position k with the current token cur
SplitFrom(s, k, cur) ==
    IF k > Len(s) THEN <<cur>>
    ELSE IF s[k] = " " THEN <<cur>> \o SplitFrom(s, k + 1, <<>>)
    ELSE SplitFrom(s, k + 1, Append(cur, s[k]))

\* s.split(" "): every single space separates, empty tokens are kept
Split(s) == SplitFrom(s, 1, <<>>)

RECURSIVE Join(_)
\* " ".join(tokens)
Join(tokens) ==
    IF tokens = <<>> THEN <<>>
    ELSE IF Len(tokens) = 1 THEN tokens[1]
    ELSE tokens[1] \o <<" ">> \o Join(Tail(tokens))

RECURSIVE LStrip(_)
LStrip(s) == IF s # <<>> /\ s[1] = " " THEN LStrip(Tail(s)) ELSE s

RECURSIVE RStrip(_)
RStrip(s) ==
    IF s # <<>> /\ s[Len(s)] = " " THEN RStrip(SubSeq(s, 1, Len(s) - 1)) ELSE s

\* s.strip()
Strip(s) == RStrip(LStrip(s))

\* tokens[a:b] with 0-based half-open bounds
Slice(seq, a, b) == SubSeq(seq, a + 1, b)

----------------------------------------------------------------------------
(* parse_transaction_description *)

\* list assignment result[k] = v; k >= len(result) is an IndexError
SetField(res, k, v) ==
    IF ~res.ok THEN res
    ELSE IF k >= Len(res.val)
         THEN Raise(Error("IndexError", <<"list assignment index out of range">>, -1))
         ELSE Ok([res.val EXCEPT ![k + 1] = v])

\* variant of FirstId: the scan keeps the LAST matching token (no break)
FirstIdSwapped(text) ==
    IF \E k \in 1..Len(text) : IsDigit(text[k])
    THEN (CHOOSE k \in 1..Len(text) :
            IsDigit(text[k]) /\ \A j \in k+1..Len(text) : ~IsDigit(text[j])) - 1
    ELSE -1

\* index (0-based) of the first token satisfying config.id_test_func, or -1
FirstId(text) ==
    IF \E k \in 1..Len(text) : IsDigit(text[k])
    THEN (CHOOSE k \in 1..Len(text) :
            IsDigit(text[k]) /\ \A j \in 1..k-1 : ~IsDigit(text[j])) - 1
    ELSE -1

EmptyFields(n) == [k \in 1..n |-> Str(<<>>)]

\* the body of the try block: lines 399-429
ParseBody(row, field_count) ==
    IF row = <<>> THEN Ok(EmptyFields(field_count))
    ELSE IF ~Truthy(row[1]) THEN Ok(EmptyFields(field_count))
    ELSE IF ~IsStr(row[1])
         THEN Raise(Error("TableProcessingError", <<"Expected string in row[0]">>, -1))
    ELSE LET text == Split(row[1].s)
             found == FirstId(text)
             r0 == Ok(EmptyFields(field_count))
         IN IF found >= 0
            THEN SetField(
                   SetField(
                     SetField(r0, 0, Str(Strip(Join(Slice(text, 0, found))))),
                     1, Str(text[found + 1])),
                   2, Str(Strip(Join(Slice(text, found + 1, Len(text))))))
            ELSE SetField(r0, 0, Str(Strip(Join(text))))

\* except Exception as e: raise TableProcessingError(f"Error parsing ...: {e}")
ParseHandler(r) ==
    IF r.ok THEN r
    ELSE Raise(Wrap("TableProcessingError", "Error parsing transaction description", r.err, -1))

parse_transaction_description(row, field_count) ==
    ParseHandler(ParseBody(row, field_count))

----------------------------------------------------------------------------
(* replace_whitespace, convert_to_float *)

replace_whitespace(c) ==
    IF ~IsStr(c) THEN Raise(Error("ValueError", <<"Expected string">>, -1))
    ELSE Ok(Str(SelectSeq(c.s, LAMBDA ch : ch # " ")))

DigitVal(ch) == CASE ch = "0" -> 0 [] ch = "1" -> 1 [] ch = "2" -> 2

RECURSIVE DigitsValue(_)
\* the integer written by a sequence of digits (0 for none)
DigitsValue(ds) ==
    IF ds = <<>> THEN 0
    ELSE 10 * DigitsValue(SubSeq(ds, 1, Len(ds) - 1)) + DigitVal(ds[Len(ds)])

RECURSIVE Normal(_, _)
\* the float m * 10^-e without trailing zero decimals
Normal(m, e) == IF e > 0 /\ m % 10 = 0 THEN Normal(m \div 10, e - 1) ELSE Flt(m, e)

\* float(s) for s over the digits, ".", and characters float() rejects:
\* digits with at most one "." and at least one digit
FloatOf(s) ==
    LET dots == {k \in 1..Len(s) : s[k] = "."}
        ds == SelectSeq(s, LAMBDA ch : ch # ".")
    IN IF Cardinality(dots) <= 1 /\ ds # <<>> /\ \A k \in 1..Len(ds) : ds[k] \in Digits
       THEN LET e == IF dots = {} THEN 0 ELSE Len(s) - (CHOOSE k \in dots : TRUE)
            IN Ok(Normal(DigitsValue(ds), e))
       ELSE Raise(Error("ValueError", <<"could not convert string to float">>, -1))

\* variant of convert_to_float: the "," of the text is not mapped to "."
ConvertNoCommaMap(c) ==
    LET body ==
          IF ~IsStr(c) THEN Raise(Error("ValueError", <<"Expected string">>, -1))
          ELSE IF c.s = <<>> THEN Ok(Flt(0, 0))
          ELSE FloatOf(SelectSeq(c.s, LAMBDA ch : ch # " "))
    IN IF body.ok THEN body
       ELSE Raise(Error("ValueError", <<"Cannot convert to float">>, -1))

\* every ValueError raised in the try block is replaced by "Cannot convert"
convert_to_float(c) ==
    LET body ==
          IF ~IsStr(c) THEN Raise(Error("ValueError", <<"Expected string">>, -1))
          ELSE IF c.s = <<>> THEN Ok(Flt(0, 0))
          ELSE FloatOf([k \in 1..Len(SelectSeq(c.s, LAMBDA ch : ch # " ")) |->
                          LET ch == SelectSeq(c.s, LAMBDA x : x # " ")[k]
                          IN IF ch = "," THEN "." ELSE ch])
    IN IF body.ok THEN body
       ELSE Raise(Error("ValueError", <<"Cannot convert to float">>, -1))

----------------------------------------------------------------------------
(* the detail-row transformer configured by setup_configuration *)

validate_row_index(row, index) ==
    IF row = <<>> THEN Raise(Error("TableProcessingError", <<"Row is empty">>, -1))
    ELSE IF index < 0 \/ index >= Len(row)
         THEN Raise(Error("TableProcessingError", <<"Index out of range">>, index))
         ELSE Ok(row)

\* row_copy[index], read when the steps so far succeeded
CellAt(res, index) == IF res.ok THEN res.val[index + 1] ELSE Str(<<>>)

\* row_copy[index] = out, where out is the outcome of the cell transform
SetCell(res, index, out) ==
    IF ~res.ok THEN res
    ELSE IF out.ok THEN Ok([res.val EXCEPT ![index + 1] = out.val]) ELSE Raise(out.err)

\* variant of DetailHandler: a TableProcessingError is wrapped like any other
DetailHandlerWrapAll(r) ==
    IF r.ok THEN r
    ELSE Raise(Wrap("TableProcessingError", "Error processing detail row", r.err, -1))

\* except TableProcessingError: raise / except Exception: wrap
DetailHandler(r) ==
    IF r.ok \/ r.err.cls = "TableProcessingError" THEN r
    ELSE Raise(Wrap("TableProcessingError", "Error processing detail row", r.err, -1))

process_detail_row_and_process_account_debit_credit(row, tf) ==
    LET v1 == validate_row_index(row, tf.account_cell_index)
        v2 == IF v1.ok THEN validate_row_index(row, tf.debit_cell_index) ELSE v1
        v3 == IF v2.ok THEN validate_row_index(row, tf.credit_cell_index) ELSE v2
        a == SetCell(v3, tf.account_cell_index,
                     replace_whitespace(CellAt(v3, tf.account_cell_index)))
        d == SetCell(a, tf.debit_cell_index,
                     convert_to_float(CellAt(a, tf.debit_cell_index)))
        c == SetCell(d, tf.credit_cell_index,
                     convert_to_float(CellAt(d, tf.credit_cell_index)))
    IN DetailHandler(c)

----------------------------------------------------------------------------
(* combine_rows *)

\* variant of combine_rows: transaction fields first
CombineSwapped(detail_row, transaction_row) ==
    IF detail_row = <<>> THEN Raise(Error("TableProcessingError", <<"Detail row is empty">>, -1))
    ELSE IF transaction_row = <<>>
         THEN Raise(Error("TableProcessingError", <<"Transaction row is empty">>, -1))
         ELSE Ok(transaction_row \o detail_row)

combine_rows(detail_row, transaction_row) ==
    IF detail_row = <<>> THEN Raise(Error("TableProcessingError", <<"Detail row is empty">>, -1))
    ELSE IF transaction_row = <<>>
         THEN Raise(Error("TableProcessingError", <<"Transaction row is empty">>, -1))
         ELSE Ok(detail_row \o transaction_row)

----------------------------------------------------------------------------
(* extract_transactions *)

NotReturned == [set |-> FALSE, rows |-> <<>>]

Returned(t) == [set |-> TRUE, rows |-> t]

\* empty_header / empty_footer
empty_header(tbl, tf) == <<>>

empty_footer(tbl, tf) == <<>>

TableStart(tf) == tf.header_len

TableEnd(tbl, tf) == Len(tbl) - tf.footer_len

\* variant of LoopCond: while i < table_end
LoopCondOffByOne(k, table_end) == k < table_end

\* while i < table_end - 1

LoopCond(k, table_end) == k < table_end - 1

\* table[k]: an index past the end raises IndexError
ReadRow(tbl, k) ==
    IF k >= 0 /\ k < Len(tbl) THEN Ok(tbl[k + 1])
    ELSE Raise(Error("IndexError", <<"list index out of range">>, -1))

\* the try block of one loop iteration (lines 501-517): its outcome, the
\* strategies it invoked and the table indices it read
PairBody(tbl, k, tf) ==
    LET r1 == ReadRow(tbl, k)
        d == process_detail_row_and_process_account_debit_credit(r1.val, tf)
        r2 == ReadRow(tbl, k + 1)
        t == parse_transaction_description(r2.val, tf.field_count)
        c == combine_rows(d.val, t.val)
    IN IF ~r1.ok THEN [res |-> r1, calls |-> <<>>, reads |-> {k}]
       ELSE IF ~d.ok THEN [res |-> d, calls |-> <<<<"detail", k>>>>, reads |-> {k}]
       ELSE IF ~r2.ok THEN [res |-> r2, calls |-> <<<<"detail", k>>>>, reads |-> {k, k + 1}]
       ELSE IF ~t.ok
            THEN [res |-> t, calls |-> <<<<"detail", k>>, <<"transaction", k + 1>>>>,
                  reads |-> {k, k + 1}]
       ELSE [res |-> c,
             calls |-> <<<<"detail", k>>, <<"transaction", k + 1>>, <<"combine", k>>>>,
             reads |-> {k, k + 1}]

\* variant of InnerHandler: the message carries the index after the pair
InnerHandlerNextRow(r, k) ==
    IF r.ok THEN r
    ELSE IF r.err.cls = "IndexError"
         THEN Raise(Error("TableProcessingError", <<"Index error at row">>, k + 2))
         ELSE Raise(Wrap("TableProcessingError", "Error processing rows", r.err, k + 2))

\* the handlers of the inner try (lines 518-523)
InnerHandler(r, k) ==
    IF r.ok THEN r
    ELSE IF r.err.cls = "IndexError"
         THEN Raise(Error("TableProcessingError", <<"Index error at row">>, k))
         ELSE Raise(Wrap("TableProcessingError", "Error processing rows", r.err, k))

\* the handlers of the outer try (lines 526-529)
OuterHandler(e) ==
    IF e.cls = "TableProcessingError" THEN e
    ELSE Wrap("TableProcessingError", "Error extracting transactions", e, -1)

\* lines 478-489: the two size checks
MinRowsCheck(tbl, tf) ==
    IF tbl = <<>> THEN Raise(Error("TableProcessingError", <<"Table is empty">>, -1))
    ELSE IF Len(tbl) < tf.header_len + tf.footer_len
         THEN Raise(Error("TableProcessingError", <<"Table has too few rows">>, -1))
         ELSE Ok(tbl)

\* lines 478-498: the checks, the header and footer strategies, i = table_start
ExtractBegin ==
    /\ pc = "extract"
    /\ stages' = Append(stages, "extract")
    /\ LET chk == MinRowsCheck(table, cfg)
       IN IF ~chk.ok
          THEN /\ err' = OuterHandler(chk.err)
               /\ pc' = "extract_raised"
               /\ UNCHANGED <<header, footer, i, calls>>
          ELSE /\ header' = empty_header(table, cfg)
               /\ footer' = empty_footer(table, cfg)
               /\ calls' = calls \o <<<<"header", -1>>, <<"footer", -1>>>>
               /\ i' = TableStart(cfg)
               /\ pc' = "loop"
               /\ err' = err
    /\ UNCHANGED <<cfg, file, document, table, transactions, result, reads,
                   written, ret, uin, uout, gui>>

\* variant of RowAfterDetail: the transformer writes to the caller's list
RowAfterDetailAliased(row, tf) ==
    LET r == process_detail_row_and_process_account_debit_credit(row, tf)
    IN IF r.ok THEN r.val ELSE row

\* the caller's list after the detail strategy returned or raised: the three
\* assignments go to row_copy, the copy made at line 346
RowAfterDetail(row, tf) == row

\* the caller's table after one loop iteration: table[i] is handed to the
\* detail strategy; the transaction strategy and combine_rows assign to no
\* cell of their arguments
TableAfterPair(tbl, k, tf) ==
    IF k >= 0 /\ k < Len(tbl)
    THEN [tbl EXCEPT ![k + 1] = RowAfterDetail(tbl[k + 1], tf)]
    ELSE tbl

\* one iteration of the while loop (lines 499-523)
ExtractPair ==
    /\ pc = "loop"
    /\ LoopCond(i, TableEnd(table, cfg))
    /\ LET body == PairBody(table, i, cfg)
           out == InnerHandler(body.res, i)
       IN /\ calls' = calls \o body.calls
          /\ reads' = reads \cup body.reads
          /\ IF out.ok
             THEN /\ transactions' = Append(transactions, out.val)
                  /\ i' = i + 2
                  /\ UNCHANGED <<pc, err>>
             ELSE /\ err' = OuterHandler(out.err)
                  /\ pc' = "extract_raised"
                  /\ UNCHANGED <<transactions, i>>
    /\ table' = TableAfterPair(table, i, cfg)
    /\ UNCHANGED <<cfg, file, document, header, footer, result, written,
                   ret, stages, uin, uout, gui>>

\* line 525: return header + transactions + footer
ExtractReturn ==
    /\ pc = "loop"
    /\ ~LoopCond(i, TableEnd(table, cfg))
    /\ result' = Returned(header \o transactions \o footer)
    /\ pc' = "extract_done"
    /\ UNCHANGED <<cfg, file, document, table, header, footer, i, transactions,
                   err, calls, reads, written, ret, stages, uin, uout, gui>>

----------------------------------------------------------------------------
(* extract_transactions called on any Table *)

S(str) == Str(str)

\* rows of the tables enumerated: two rows the configured transforms accept
\* and one holding a number where text is expected
RowA == <<S(<<"1", " ", "2">>), S(<<"1", ",", "0">>), S(<<>>)>>

RowB == <<S(<<"a", " ", "1", " ", "a">>), S(<<>>), S(<<"2">>)>>

RowF == <<Flt(15, 1), S(<<"1">>), S(<<"2">>)>>

RowPool == {RowA, RowB, RowF}

RECURSIVE SeqsUpTo(_, _)
\* the sequences over S of length at most n
SeqsUpTo(SS, n) ==
    IF n = 0 THEN {<<>>}
    ELSE LET shorter == SeqsUpTo(SS, n - 1)
         IN shorter \cup {Append(q, x) : q \in {p \in shorter : Len(p) = n - 1}, x \in SS}

\* the cell indices setup_configuration uses are 4, 5, 6 on 7-cell rows; the
\* enumerated rows have 3 cells
IndexChoices == {<<0, 1, 2>>, <<2, 0, 1>>}

\* TransactionRowParsingConfig's default and setup_configuration's value
DefaultFieldCount == 3

\* the width of a combined row of the enumerated three-cell rows
CombinedWidth == Len(RowA) + DefaultFieldCount

Config(h, f, idx, fc, ti, n, sfx, inok, outok) ==
    [header_len |-> h, footer_len |-> f, account_cell_index |-> idx[1],
     debit_cell_index |-> idx[2], credit_cell_index |-> idx[3],
     field_count |-> fc, table_index |-> ti, ncols |-> n, suffix |-> sfx,
     input_ok |-> inok, output_ok |-> outok]

NotWritten == [done |-> FALSE, cols |-> 0, rows |-> <<>>]

NoFile == [kind |-> "none", tables |-> <<>>]

NoUnit == [f |-> "none"]

\* no window: the functions of processor.py called without the GUI
NoGui == [button |-> "none"]

InitExtract ==
    /\ pc = "extract"
    /\ cfg \in {Config(h, f, idx, DefaultFieldCount, 0, CombinedWidth, "xlsx", TRUE, TRUE) :
                  h \in 0..MaxHF, f \in 0..MaxHF, idx \in IndexChoices}
    /\ table \in SeqsUpTo(RowPool, MaxRows)
    /\ file = NoFile
    /\ document = <<>>
    /\ header = <<>>
    /\ footer = <<>>
    /\ i = 0
    /\ transactions = <<>>
    /\ result = NotReturned
    /\ err = NoErr
    /\ calls = <<>>
    /\ reads = {}
    /\ written = NotWritten
    /\ ret = -1
    /\ stages = <<>>
    /\ uin = NoUnit
    /\ uout = NoUnit
    /\ gui = NoGui

NextExtract == ExtractBegin \/ ExtractPair \/ ExtractReturn

SpecExtract == InitExtract /\ [][NextExtract]_vars

----------------------------------------------------------------------------
(* Properties of extract_transactions (checked under SpecExtract) *)

ExtractEnded == pc \in {"extract_done", "extract_raised"}

BodySize == Len(table) - cfg.header_len - cfg.footer_len

\* the call ended in the handlers of the inner try: a per-pair failure
PairFailed ==
    /\ pc = "extract_raised"
    /\ err.msg[1] \in {"Error processing rows", "Index error at row"}

\* C1 as stated: for EVERY table with header_len + footer_len <= len(table) on
\* which no per-pair transform fails, extract_transactions returns, and returns
\* exactly floor(B/2) rows.
C1_Original ==
    (ExtractEnded /\ cfg.header_len + cfg.footer_len <= Len(table) /\ ~PairFailed)
        => /\ pc = "extract_done"
           /\ Len(transactions) = BodySize \div 2
           /\ Len(result.rows) = BodySize \div 2

\* C1 (amended): for every NON-EMPTY table with header_len + footer_len <=
\* len(table) on which no per-pair transform fails, extract_transactions returns
\* exactly floor(B/2) transaction rows (an odd last body row is dropped without
\* error), and with the empty default header and footer the returned table has
\* exactly floor(B/2) rows.
C1_FloorHalfRows ==
    (ExtractEnded /\ table # <<>> /\ cfg.header_len + cfg.footer_len <= Len(table)
       /\ ~PairFailed)
        => /\ pc = "extract_done"
           /\ err = NoErr
           /\ Len(transactions) = BodySize \div 2
           /\ Len(result.rows) = BodySize \div 2

\* an odd body of at least three rows was processed and its last row dropped
C1_Witness ==
    /\ pc = "extract_done"
    /\ BodySize % 2 = 1
    /\ BodySize >= 3
    /\ Len(result.rows) = BodySize \div 2

\* C2: the returned table is header ++ transactions ++ footer; the k-th
\* transaction row is the detail transform of table[header_len + 2k] followed
\* by the transaction transform of table[header_len + 2k + 1]; and no row with
\* index < header_len or >= len - footer_len is ever handed to the detail or
\* the transaction transformer.
C2_PairsInOrder ==
    /\ pc = "extract_done" =>
         /\ result.set
         /\ result.rows = header \o transactions \o footer
         /\ Len(transactions) = Len(result.rows)
    /\ \A k \in 0..Len(transactions) - 1 :
         LET d == process_detail_row_and_process_account_debit_credit(
                      table[cfg.header_len + 2 * k + 1], cfg)
             t == parse_transaction_description(
                      table[cfg.header_len + 2 * k + 2], cfg.field_count)
         IN /\ d.ok /\ t.ok
            /\ transactions[k + 1] = d.val \o t.val
    /\ \A c \in 1..Len(calls) :
         calls[c][1] \in {"detail", "transaction"} =>
             /\ calls[c][2] >= cfg.header_len
             /\ calls[c][2] < Len(table) - cfg.footer_len
    /\ \A c \in 1..Len(calls) :
         /\ calls[c][1] = "detail" => (calls[c][2] - cfg.header_len) % 2 = 0
         /\ calls[c][1] = "transaction" => (calls[c][2] - cfg.header_len) % 2 = 1

\* two different pairs were combined between a header and a footer row
C2_Witness ==
    /\ pc = "extract_done"
    /\ Len(result.rows) >= 2
    /\ result.rows[1] # result.rows[2]
    /\ cfg.header_len + cfg.footer_len >= 1

\* C3: with len(table) < header_len + footer_len the call fails with a
\* Processing error before any strategy is invoked; with header_len +
\* footer_len <= len(table) every index the pairing loop reads lies inside the
\* table and no IndexError arises.
C3_SizeCheckAndBounds ==
    /\ (pc # "extract" /\ Len(table) < cfg.header_len + cfg.footer_len) =>
          /\ pc = "extract_raised"
          /\ err.cls = "TableProcessingError"
          /\ calls = <<>>
          /\ reads = {}
    /\ cfg.header_len + cfg.footer_len <= Len(table) =>
          /\ \A k \in reads : k >= 0 /\ k < Len(table)
          /\ err.msg # <<>> => err.msg[1] # "Index error at row"
          /\ \A m \in 1..Len(err.msg) : err.msg[m] # "list index out of range"

\* a non-empty table shorter than header + footer was rejected
C3_Witness ==
    /\ pc = "extract_raised"
    /\ Len(table) > 0
    /\ Len(table) < cfg.header_len + cfg.footer_len
    /\ calls = <<>>

\* whether the pair starting at row k fails in a transform or the combiner
PairFails(k) ==
    LET d == process_detail_row_and_process_account_debit_credit(table[k + 1], cfg)
        t == parse_transaction_description(table[k + 2], cfg.field_count)
    IN ~d.ok \/ ~t.ok \/ d.val = <<>> \/ t.val = <<>>

\* the starts of the body pairs
PairStarts ==
    {k \in cfg.header_len..(Len(table) - cfg.footer_len - 2) :
        (k - cfg.header_len) % 2 = 0}

\* C7: when a transform or the combiner fails on the body pair starting at row
\* i, the call raises a Processing error that carries row index i, no later
\* pair is processed, no strategy is invoked twice on a row, and nothing is
\* returned.
C7_FailFastAtRow ==
    /\ (ExtractEnded /\ table # <<>> /\ \E k \in PairStarts : PairFails(k)) =>
          LET first == CHOOSE k \in PairStarts :
                           PairFails(k) /\ \A j \in PairStarts : PairFails(j) => k <= j
          IN /\ pc = "extract_raised"
             /\ err.cls = "TableProcessingError"
             /\ err.msg[1] = "Error processing rows"
             /\ err.row = first
             /\ i = first
             /\ ~result.set
             /\ \A c \in 1..Len(calls) : calls[c][2] <= first + 1
    /\ PairFailed => ~result.set /\ result.rows = <<>>
    /\ \A c1, c2 \in 1..Len(calls) : calls[c1] = calls[c2] => c1 = c2

\* the second pair failed after the first had been accumulated
C7_Witness ==
    /\ PairFailed
    /\ Len(transactions) >= 1
    /\ err.row = cfg.header_len + 2
    /\ ~result.set

----------------------------------------------------------------------------
(* parse_transaction_description called on any transaction row *)

Alphabet == {"a", "1", " "}

\* an empty row, a row whose first cell is any text of at most MaxLen
\* characters, and rows whose first cell is a number
ParseRows ==
    {<<>>, <<Flt(0, 0)>>, <<Flt(15, 1)>>}
        \cup {<<Str(txt)>> : txt \in SeqsUpTo(Alphabet, MaxLen)}

UnitIdle ==
    /\ cfg = Config(0, 0, <<0, 1, 2>>, DefaultFieldCount, 0, CombinedWidth, "xlsx", TRUE, TRUE)
    /\ file = NoFile
    /\ document = <<>>
    /\ table = <<>>
    /\ header = <<>>
    /\ footer = <<>>
    /\ i = 0
    /\ transactions = <<>>
    /\ result = NotReturned
    /\ err = NoErr
    /\ calls = <<>>
    /\ reads = {}
    /\ written = NotWritten
    /\ ret = -1
    /\ stages = <<>>

InitParse ==
    /\ pc = "parse"
    /\ uin \in {[f |-> "parse", row |-> r, field_count |-> n] :
                  r \in ParseRows, n \in 1..MaxFields}
    /\ uout = NoUnit
    /\ gui = NoGui
    /\ UnitIdle

\* the call parse_transaction_description(row, table_format)
Parse ==
    /\ pc = "parse"
    /\ uout' = [f |-> "parse", res |-> parse_transaction_description(uin.row, uin.field_count)]
    /\ pc' = "parsed"
    /\ UNCHANGED <<cfg, file, document, table, header, footer, i, transactions,
                   result, err, calls, reads, written, ret, stages, uin, gui>>

NextParse == Parse

SpecParse == InitParse /\ [][NextParse]_vars

----------------------------------------------------------------------------
(* Properties of parse_transaction_description (checked under SpecParse) *)

\* positions a..b of txt hold one space-delimited token made of digits
DigitTokenAt(txt, a, b) ==
    /\ 1 <= a /\ a <= b /\ b <= Len(txt)
    /\ a = 1 \/ txt[a - 1] = " "
    /\ b = Len(txt) \/ txt[b + 1] = " "
    /\ \A k \in a..b : txt[k] \in Digits

HasDigitToken(txt) == \E a, b \in 1..Len(txt) : DigitTokenAt(txt, a, b)

\* what C4 describes for a text with an ID token: the text before the first
\* digit token trimmed, that token, the text after it trimmed
SplitAtFirstId(txt) ==
    LET a == CHOOSE x \in 1..Len(txt) :
                 /\ \E y \in 1..Len(txt) : DigitTokenAt(txt, x, y)
                 /\ \A x2 \in 1..x - 1 : \A y2 \in 1..Len(txt) : ~DigitTokenAt(txt, x2, y2)
        b == CHOOSE y \in 1..Len(txt) : DigitTokenAt(txt, a, y)
    IN <<Str(Strip(SubSeq(txt, 1, a - 2))),
         Str(SubSeq(txt, a, b)),
         Str(Strip(SubSeq(txt, b + 2, Len(txt))))>>

ParsedThree == pc = "parsed" /\ uin.field_count = 3

TextRow == uin.row # <<>> /\ IsStr(uin.row[1]) /\ uin.row[1].s # <<>>

\* C4 as stated: as C4_ParseThreeFields below, except that without a matching
\* token field 0 is the ENTIRE text of the cell.
C4_Original ==
    (ParsedThree /\ TextRow /\ ~HasDigitToken(uin.row[1].s)) =>
        /\ uout.res.ok
        /\ uout.res.val = <<Str(uin.row[1].s), Str(<<>>), Str(<<>>)>>

\* C4 (amended): with field_count = 3 and the all-digits predicate the first
\* cell is split on single spaces; the text before the first matching token,
\* trimmed, is field 0, the token is field 1, the text after it, trimmed, is
\* field 2 (later matching tokens stay in field 2); without a matching token
\* field 0 is the text TRIMMED of leading and trailing spaces and fields 1 and
\* 2 are empty; an empty or missing first cell yields three empty strings.
C4_ParseThreeFields ==
    ParsedThree =>
        /\ (TextRow /\ HasDigitToken(uin.row[1].s)) =>
              /\ uout.res.ok
              /\ uout.res.val = SplitAtFirstId(uin.row[1].s)
        /\ (TextRow /\ ~HasDigitToken(uin.row[1].s)) =>
              /\ uout.res.ok
              /\ uout.res.val = <<Str(Strip(uin.row[1].s)), Str(<<>>), Str(<<>>)>>
        /\ (uin.row = <<>> \/ uin.row[1] = Str(<<>>)) =>
              /\ uout.res.ok
              /\ uout.res.val = <<Str(<<>>), Str(<<>>), Str(<<>>)>>

\* a text with two digit tokens was parsed: the second stays in the description
C4_Witness ==
    /\ ParsedThree
    /\ TextRow
    /\ uout.res.ok
    /\ uout.res.val[1].s # <<>>
    /\ IsDigit(uout.res.val[2].s)
    /\ HasDigitToken(uout.res.val[3].s)

\* C5: for every field_count > 0 and every row whose first cell is text the
\* parser returns a row of exactly field_count fields, also when a token
\* matching the ID predicate is present.
C5_ExactlyFieldCount ==
    (pc = "parsed" /\ uin.row # <<>> /\ IsStr(uin.row[1])) =>
        /\ uout.res.ok
        /\ Len(uout.res.val) = uin.field_count

----------------------------------------------------------------------------
(* load_xml_document, load_xml_table *)

\* load_xml_table: a row with zero cells is not appended (lines 164-165)
load_xml_table(rows) == SelectSeq(rows, LAMBDA r : r # <<>>)

\* file.kind is what zipfile and lxml find at the path; file.tables are the
\* w:tbl elements of a well-formed document, each the rows of its w:tr
load_xml_document(f) ==
    IF f.kind = "badzip"
    THEN Raise(Error("DocumentLoadingError", <<"not a valid DOCX file">>, -1))
    ELSE IF f.kind = "nodocxml"
    THEN Raise(Error("DocumentLoadingError", <<"Document structure error">>, -1))
    ELSE IF f.kind = "badxml"
    THEN Raise(Error("DocumentLoadingError", <<"XML parsing error">>, -1))
    ELSE IF f.tables = <<>>
    \* raised inside the try block and caught by its own except Exception
    THEN Raise(Wrap("DocumentLoadingError", "Failed to load document",
                    Error("DocumentLoadingError", <<"No tables found in document">>, -1), -1))
    ELSE Ok([k \in 1..Len(f.tables) |-> load_xml_table(f.tables[k])])

----------------------------------------------------------------------------
(* choose_table *)

\* variant of choose_table: the selected table is not checked for rows
ChooseNoEmptyCheck(tables, index) ==
    IF tables = <<>>
    THEN Raise(Error("TableProcessingError", <<"No tables available in the document">>, -1))
    ELSE IF index < 0 \/ index >= Len(tables)
    THEN Raise(Error("TableProcessingError", <<"Table index out of range">>, index))
    ELSE Ok(tables[index + 1])

choose_table(tables, index) ==
    IF tables = <<>>
    THEN Raise(Error("TableProcessingError", <<"No tables available in the document">>, -1))
    ELSE IF index < 0 \/ index >= Len(tables)
    THEN Raise(Error("TableProcessingError", <<"Table index out of range">>, index))
    ELSE IF tables[index + 1] = <<>>
    THEN Raise(Error("TableProcessingError", <<"Selected table is empty">>, index))
    ELSE Ok(tables[index + 1])

----------------------------------------------------------------------------
(* export_to_excel *)

\* the value pandas stores where a record is shorter than the column list
Missing == [t |-> "nan", s |-> <<>>, m |-> 0, e |-> 0]

\* pd.DataFrame(table, columns=columns): a record longer than the column list
\* is a ValueError, a shorter one is filled up
DataFrame(tbl, ncols) ==
    IF \E k \in 1..Len(tbl) : Len(tbl[k]) > ncols
    THEN Raise(Error("ValueError", <<"columns passed, passed data had more columns">>, -1))
    ELSE Ok([k \in 1..Len(tbl) |->
               [c \in 1..ncols |-> IF c <= Len(tbl[k]) THEN tbl[k][c] ELSE Missing]])

\* df.to_excel(path): pandas has an Excel writer for .xlsx and none for .csv
to_excel(df, ncols, suffix) ==
    IF suffix = "xlsx" THEN Ok([done |-> TRUE, cols |-> ncols, rows |-> df])
    ELSE Raise(Error("ValueError", <<"No engine for filetype">>, -1))

\* except ExportError: raise / except Exception: wrap
ExportHandler(r) ==
    IF r.ok \/ r.err.cls = "ExportError" THEN r
    ELSE Raise(Wrap("ExportError", "Failed to export to Excel", r.err, -1))

\* variant of export_to_excel: an empty table is not rejected
ExportNoEmptyCheck(tbl, out) ==
    LET df == DataFrame(tbl, out.ncols)
    IN ExportHandler(
         IF tbl # <<>> /\ Len(tbl[1]) # out.ncols
         THEN Raise(Error("ExportError", <<"column count mismatch">>, -1))
         ELSE IF ~df.ok THEN df
         ELSE to_excel(df.val, out.ncols, out.suffix))

export_to_excel(tbl, out) ==
    LET df == DataFrame(tbl, out.ncols)
    IN ExportHandler(
         IF tbl = <<>>
         THEN Raise(Error("ExportError", <<"Cannot export empty table">>, -1))
         ELSE IF Len(tbl[1]) # out.ncols
         THEN Raise(Error("ExportError", <<"column count mismatch">>, -1))
         ELSE IF ~df.ok THEN df
         ELSE to_excel(df.val, out.ncols, out.suffix))

----------------------------------------------------------------------------
(* main *)

\* variant of AfterStage: a failed stage does not leave the try block
AfterStageContinue(r, next) == next

\* where main goes after a stage: on, or to its except clauses

AfterStage(r, next) == IF r.ok THEN next ELSE "main_except"

\* setup_configuration: the pydantic validators reject a missing or non-.docx
\* input path and an output path outside an existing directory or with a
\* suffix other than .xlsx / .csv
MainSetup ==
    /\ pc = "main"
    /\ IF cfg.input_ok /\ cfg.output_ok
       THEN pc' = "load" /\ err' = err
       ELSE /\ pc' = "main_except"
            /\ err' = Error("ValueError", <<"Error in configuration setup">>, -1)
    /\ UNCHANGED <<cfg, file, document, table, header, footer, i, transactions,
                   result, calls, reads, written, ret, stages, uin, uout, gui>>

\* document = loading_config.loading_strategy(...)
Load ==
    /\ pc = "load"
    /\ stages' = Append(stages, "load")
    /\ LET r == load_xml_document(file)
       IN /\ document' = r.val
          /\ err' = r.err
          /\ pc' = AfterStage(r, "select")
    /\ UNCHANGED <<cfg, file, table, header, footer, i, transactions, result,
                   calls, reads, written, ret, uin, uout, gui>>

\* table = loading_config.table_choose_strategy(...)
Select ==
    /\ pc = "select"
    /\ stages' = Append(stages, "select")
    /\ LET r == choose_table(document, cfg.table_index)
       IN /\ table' = r.val
          /\ err' = r.err
          /\ pc' = AfterStage(r, "extract")
    /\ UNCHANGED <<cfg, file, document, header, footer, i, transactions, result,
                   calls, reads, written, ret, uin, uout, gui>>

\* export_config.export_strategy(transactions, ...); return 0
Export ==
    /\ pc = "extract_done"
    /\ stages' = Append(stages, "export")
    /\ LET r == export_to_excel(result.rows, cfg)
       IN /\ written' = IF r.ok THEN r.val ELSE written
          /\ err' = r.err
          /\ pc' = AfterStage(r, "done")
          /\ ret' = IF AfterStage(r, "done") = "done" THEN 0 ELSE ret
    /\ UNCHANGED <<cfg, file, document, table, header, footer, i, transactions,
                   result, calls, reads, uin, uout, gui>>

\* the except clauses of main: print the error, return 1
MainExcept ==
    /\ pc \in {"main_except", "extract_raised"}
    /\ ret' = 1
    /\ pc' = "done"
    /\ UNCHANGED <<cfg, file, document, table, header, footer, i, transactions,
                   result, err, calls, reads, written, stages, uin, uout, gui>>

\* rows of the tables in the input document: text cells only; RowW is wider
\* than RowA, RowX has text the decimal transform rejects
RowW == <<S(<<"2">>), S(<<>>), S(<<"1", ",", "2">>), S(<<"a">>)>>

RowX == <<S(<<"a">>), S(<<"a">>), S(<<"a">>)>>

DocRows == {RowA, RowW, RowX}

\* the other table of a two-table document: one whose only row has no cells
\* (the loader drops the row) and one with a row
OtherTables == {<<<<>>>>, <<RowA>>}

Documents ==
    {<<>>}
        \cup {<<t>> : t \in SeqsUpTo(DocRows, MaxDocRows)}
        \cup {<<t, u>> : t \in SeqsUpTo(DocRows, MaxDocRows), u \in OtherTables}
        \cup {<<u, t>> : t \in SeqsUpTo(DocRows, MaxDocRows), u \in OtherTables}

Files ==
    {[kind |-> k, tables |-> <<>>] : k \in {"badzip", "nodocxml", "badxml"}}
        \cup {[kind |-> "docx", tables |-> d] : d \in Documents}

\* column lists as long as a combined row of RowA, and of RowW
ColumnCounts == {CombinedWidth, CombinedWidth + 1}

Init ==
    /\ pc = "main"
    /\ \/ /\ cfg \in {Config(h, f, <<0, 1, 2>>, DefaultFieldCount, ti, n, sfx, TRUE, TRUE) :
                        h \in 0..MaxDocHF, f \in 0..MaxDocHF, ti \in 0..2,
                        n \in ColumnCounts, sfx \in {"xlsx", "csv"}}
          /\ file \in Files
       \/ /\ cfg \in {Config(0, 0, <<0, 1, 2>>, DefaultFieldCount, 0, CombinedWidth, "xlsx", a, b) :
                        a, b \in BOOLEAN}
          /\ ~(cfg.input_ok /\ cfg.output_ok)
          /\ file = NoFile
    /\ document = <<>>
    /\ table = <<>>
    /\ header = <<>>
    /\ footer = <<>>
    /\ i = 0
    /\ transactions = <<>>
    /\ result = NotReturned
    /\ err = NoErr
    /\ calls = <<>>
    /\ reads = {}
    /\ written = NotWritten
    /\ ret = -1
    /\ stages = <<>>
    /\ uin = NoUnit
    /\ uout = NoUnit
    /\ gui = NoGui

Next ==
    \/ MainSetup
    \/ Load
    \/ Select
    \/ ExtractBegin
    \/ ExtractPair
    \/ ExtractReturn
    \/ Export
    \/ MainExcept

Spec == Init /\ [][Next]_vars

----------------------------------------------------------------------------
(* choose_table called on any Document *)

ChooseTables == {<<>>, <<RowA>>, <<RowW, RowA>>}

InitChoose ==
    /\ pc = "choose"
    /\ uin \in {[f |-> "choose", tables |-> d, index |-> n] :
                  d \in SeqsUpTo(ChooseTables, MaxTables), n \in 0..MaxTables}
    /\ uout = NoUnit
    /\ gui = NoGui
    /\ UnitIdle

\* the call choose_table(tables, input_document_format)
Choose ==
    /\ pc = "choose"
    /\ uout' = [f |-> "choose", res |-> choose_table(uin.tables, uin.index)]
    /\ pc' = "chosen"
    /\ UNCHANGED <<cfg, file, document, table, header, footer, i, transactions,
                   result, err, calls, reads, written, ret, stages, uin, gui>>

NextChoose == Choose

SpecChoose == InitChoose /\ [][NextChoose]_vars

----------------------------------------------------------------------------
(* Properties of main (checked under Spec) *)

StageOrder == <<"load", "select", "extract", "export">>

\* the state half of C6
C6_State ==
    /\ Len(stages) <= Len(StageOrder)
    /\ stages = SubSeq(StageOrder, 1, Len(stages))
    /\ ret \in {-1, 0, 1}
    /\ ret = 0 => /\ stages = StageOrder
                  /\ err = NoErr
                  /\ written.done
                  /\ result.set
    /\ err # NoErr => ~written.done /\ ret # 0
    /\ (pc = "done" /\ err # NoErr) => ret = 1
    /\ pc = "done" => ret # -1
    /\ written.done => stages = StageOrder

\* the step half of C6: once a stage has failed no stage is invoked, nothing
\* is written and the error is the one reported
C6_Step ==
    err # NoErr => /\ stages' = stages
                   /\ written' = written
                   /\ err' = err
                   /\ ret' = 1

\* C6: main invokes the stages in the order load, select, extract, export; at
\* the first stage that fails no later stage is invoked, nothing has been
\* written and main returns non-zero; main returns 0 only when all four stages
\* succeeded.
C6_StagesInOrderFailFast == []C6_State /\ [][C6_Step]_vars

\* extraction failed: export was never invoked and main returned 1
C6_Witness ==
    /\ pc = "done"
    /\ ret = 1
    /\ stages = <<"load", "select", "extract">>
    /\ err.cls = "TableProcessingError"
    /\ ~written.done

ExportInvoked == stages = StageOrder

\* C10: export_to_excel fails with an Export error, before anything is
\* written, when the table is empty or its first row's width differs from the
\* number of column names; so a table whose body has fewer than two rows ends
\* the run with an Export error and no output file.
C10_ExportRejects ==
    /\ (ExportInvoked /\ result.rows = <<>>) =>
          /\ err = Error("ExportError", <<"Cannot export empty table">>, -1)
          /\ ~written.done
          /\ ret # 0
    /\ (ExportInvoked /\ result.rows # <<>> /\ Len(result.rows[1]) # cfg.ncols) =>
          /\ err = Error("ExportError", <<"column count mismatch">>, -1)
          /\ ~written.done
          /\ ret # 0
    /\ (pc = "done" /\ Len(stages) >= 3
          /\ cfg.header_len + cfg.footer_len <= Len(table) /\ BodySize < 2) =>
          /\ result.set /\ result.rows = <<>>
          /\ ExportInvoked
          /\ err.cls = "ExportError"
          /\ ret = 1
          /\ ~written.done

\* a table with a one-row body went through the four stages and was rejected
C10_Witness ==
    /\ pc = "done"
    /\ BodySize = 1
    /\ ExportInvoked
    /\ err.cls = "ExportError"
    /\ ~written.done

----------------------------------------------------------------------------
(* Properties of choose_table (checked under SpecChoose) *)

\* C9: choose_table returns tables[index] exactly when 0 <= index <
\* len(tables) and tables[index] has a row; otherwise (no tables, index >=
\* len(tables), selected table without rows) it fails with a Processing error.
C9_ChooseTable ==
    pc = "chosen" =>
        LET inRange == uin.index >= 0 /\ uin.index < Len(uin.tables)
        IN /\ uout.res.ok <=> (inRange /\ uin.tables[uin.index + 1] # <<>>)
           /\ uout.res.ok => uout.res.val = uin.tables[uin.index + 1]
           /\ ~uout.res.ok => uout.res.err.cls = "TableProcessingError"
           /\ uin.tables = <<>> => ~uout.res.ok
           /\ uin.index = Len(uin.tables) => ~uout.res.ok

\* index == len(tables) on a document with tables was rejected
C9_Witness ==
    /\ pc = "chosen"
    /\ uin.tables # <<>>
    /\ uin.index = Len(uin.tables)
    /\ uout.res.err.cls = "TableProcessingError"

----------------------------------------------------------------------------
(* Error propagation (checked under SpecParse) *)

\* C8, for parse_transaction_description: a domain error raised inside the
\* function reaches the caller unchanged, with the same class and message.
C8_DomainErrorUnchanged ==
    LET inner == ParseBody(uin.row, uin.field_count)
    IN (pc = "parsed" /\ ~inner.ok /\ inner.err.cls \in DomainClasses) =>
           /\ ~uout.res.ok
           /\ uout.res.err = inner.err

----------------------------------------------------------------------------
(* Properties of export_to_excel inside main (checked under Spec) *)

\* C11: whenever an export succeeds, every row of the exported table is as
\* wide as the list of column names: no table holding a row of another width
\* is written.
C11_EveryRowMatchesColumns ==
    written.done =>
        \A k \in 1..Len(result.rows) : Len(result.rows[k]) = cfg.ncols

\* C12: a non-empty table whose rows all have the width of the column list is
\* exported successfully for either accepted suffix, .xlsx or .csv.
C12_BothSuffixesExport ==
    (pc = "done" /\ ExportInvoked /\ result.rows # <<>>
       /\ \A k \in 1..Len(result.rows) : Len(result.rows[k]) = cfg.ncols) =>
        /\ cfg.suffix \in {"xlsx", "csv"}
        /\ written.done
        /\ ret = 0

----------------------------------------------------------------------------
(* process_detail_row_and_process_account_debit_credit called on any row *)

MaxCells == 3

MaxIdx == 3

\* cells of the rows enumerated: a spaced number, the empty text, a text that
\* is no number, and a cell that is not text
DetailCells == {S(<<"1", " ", "2">>), S(<<>>), S(<<"a">>), Flt(15, 1)}

DetailRows == SeqsUpTo(DetailCells, MaxCells)

InitDetail ==
    /\ pc = "detail"
    /\ uin \in {[f |-> "detail", row |-> r, account_cell_index |-> a,
                 debit_cell_index |-> d, credit_cell_index |-> c] :
                  r \in DetailRows, a \in 0..MaxIdx, d \in 0..MaxIdx, c \in 0..MaxIdx}
    /\ uout = NoUnit
    /\ gui = NoGui
    /\ UnitIdle

Detail ==
    /\ pc = "detail"
    /\ pc' = "detailed"
    /\ uout' = [f |-> "detail",
                res |-> process_detail_row_and_process_account_debit_credit(uin.row, uin)]
    /\ UNCHANGED <<cfg, file, document, table, header, footer, i, transactions,
                   result, err, calls, reads, written, ret, stages, uin, gui>>

NextDetail == Detail

SpecDetail == InitDetail /\ [][NextDetail]_vars

\* the configured indices of the call, in the order they are validated
DetailIndices == <<uin.account_cell_index, uin.debit_cell_index, uin.credit_cell_index>>

OutOfRange == {k \in 1..3 : DetailIndices[k] >= Len(uin.row)}

\* some transform is handed a value that is not text: a configured cell is
\* not text, or the credit index is the debit index and the credit transform
\* is handed the number the debit transform stored
SeesNonText ==
    \/ \E k \in 1..3 : ~IsStr(uin.row[DetailIndices[k] + 1])
    \/ uin.debit_cell_index = uin.credit_cell_index

NoSpaces(c) == Str(SelectSeq(c.s, LAMBDA ch : ch # " "))

IsNumber(c) == convert_to_float(c).ok

DetailFailsWith(cls) == ~uout.res.ok /\ uout.res.err.cls = cls

DistinctIndices == Cardinality({DetailIndices[k] : k \in 1..3}) = 3

\* the row a successful call returns when the three indices differ
DetailResultAsClaimed ==
    /\ uout.res.ok
    /\ Len(uout.res.val) = Len(uin.row)
    /\ uout.res.val[uin.account_cell_index + 1] = NoSpaces(uin.row[uin.account_cell_index + 1])
    /\ uout.res.val[uin.debit_cell_index + 1]
         = convert_to_float(uin.row[uin.debit_cell_index + 1]).val
    /\ uout.res.val[uin.credit_cell_index + 1]
         = convert_to_float(uin.row[uin.credit_cell_index + 1]).val
    /\ \A k \in 1..Len(uin.row) :
          (k - 1) \notin {DetailIndices[j] : j \in 1..3} => uout.res.val[k] = uin.row[k]

\* the failures on a bad index or a value that is not text
DetailFailuresAsClaimed ==
    /\ uin.row = <<>> => DetailFailsWith("TableProcessingError")
    /\ (uin.row # <<>> /\ OutOfRange # {}) =>
          /\ DetailFailsWith("TableProcessingError")
          /\ \E k \in OutOfRange : uout.res.err.row = DetailIndices[k]
    /\ (OutOfRange = {} /\ SeesNonText) => DetailFailsWith("TableProcessingError")

\* C13 as stated: the transformer fails with a Processing error naming the
\* offending index when a configured index is outside the row (or the row is
\* empty) and with a Processing error when a transform is handed a non-text
\* value; in every other case it returns a row of the same length with the
\* account cell stripped of spaces, the debit and credit cells parsed, and
\* every other cell unchanged.
C13_Original ==
    pc = "detailed" =>
        /\ DetailFailuresAsClaimed
        /\ (OutOfRange = {} /\ ~SeesNonText) => DetailResultAsClaimed

\* C13 (amended): as above, and the transformer also fails with a Processing
\* error when the debit or credit text is not a number; the row described is
\* returned when the texts are numbers and the three indices differ, and a
\* row of the same length is returned whenever the call succeeds.
C13_DetailTransform ==
    pc = "detailed" =>
        /\ DetailFailuresAsClaimed
        /\ (OutOfRange = {} /\ ~SeesNonText) =>
              LET debit == uin.row[uin.debit_cell_index + 1]
                  credit == uin.row[uin.credit_cell_index + 1]
              IN /\ ~(IsNumber(debit) /\ IsNumber(credit)) =>
                        DetailFailsWith("TableProcessingError")
                 /\ (IsNumber(debit) /\ IsNumber(credit)) =>
                        /\ uout.res.ok
                        /\ Len(uout.res.val) = Len(uin.row)
                        /\ DistinctIndices => DetailResultAsClaimed

\* a successful call with three different indices that changed the account
\* cell and parsed both amounts
C13_Witness ==
    /\ pc = "detailed"
    /\ DistinctIndices
    /\ uout.res.ok
    /\ uout.res.val[uin.account_cell_index + 1] # uin.row[uin.account_cell_index + 1]
    /\ uout.res.val[uin.debit_cell_index + 1] = Flt(12, 0)
    /\ uout.res.val[uin.credit_cell_index + 1] = Flt(0, 0)

----------------------------------------------------------------------------
(* convert_to_float called on any cell *)

MaxNum == 5

FloatAlphabet == {"1", "2", ",", ".", " ", "a"}

\* two longer amounts: space-grouped thousands with a decimal comma, and
\* dot-grouped thousands with a decimal comma
FloatExamples ==
    {<<"1", " ", "2", "0", "1", ",", "2", "1">>,
     <<"1", ".", "2", "0", "1", ",", "2", "1">>}

FloatCells ==
    {Flt(0, 0), Flt(15, 1)}
        \cup {Str(txt) : txt \in SeqsUpTo(FloatAlphabet, MaxNum) \cup FloatExamples}

InitFloat ==
    /\ pc = "convert"
    /\ uin \in {[f |-> "convert", text |-> c] : c \in FloatCells}
    /\ uout = NoUnit
    /\ gui = NoGui
    /\ UnitIdle

Convert ==
    /\ pc = "convert"
    /\ pc' = "converted"
    /\ uout' = [f |-> "convert", res |-> convert_to_float(uin.text)]
    /\ UNCHANGED <<cfg, file, document, table, header, footer, i, transactions,
                   result, err, calls, reads, written, ret, stages, uin, gui>>

NextFloat == Convert

SpecFloat == InitFloat /\ [][NextFloat]_vars

RECURSIVE Pow10(_)
Pow10(n) == IF n = 0 THEN 1 ELSE 10 * Pow10(n - 1)

Commas(txt) == {k \in 1..Len(txt) : txt[k] = ","}

Dots(txt) == {k \in 1..Len(txt) : txt[k] = "."}

DigitsOf(txt) == SelectSeq(txt, LAMBDA ch : ch \in Digits)

\* only digits, separators and spaces, with at least one digit
AmountText(txt) ==
    /\ \A k \in 1..Len(txt) : txt[k] \in Digits \cup {",", ".", " "}
    /\ DigitsOf(txt) # <<>>

\* the digits written after position k
DigitsAfter(txt, k) == Cardinality({j \in k + 1..Len(txt) : txt[j] \in Digits})

\* the outcome is the number whose digits are those of txt, n of them decimals
YieldsNumber(txt, n) ==
    /\ uout.res.ok
    /\ uout.res.val.t = "float"
    /\ uout.res.val.e <= n
    /\ uout.res.val.m * Pow10(n - uout.res.val.e) = DigitsValue(DigitsOf(txt))

ConvertRaises == ~uout.res.ok /\ uout.res.err.cls = "ValueError"

\* "." between digits as thousands separators, then one "," before the decimals
DotThousandsCommaDecimal(txt) ==
    /\ AmountText(txt)
    /\ Dots(txt) # {}
    /\ \E c \in Commas(txt) :
          /\ Commas(txt) = {c}
          /\ c < Len(txt)
          /\ \A d \in Dots(txt) :
                d > 1 /\ d < c /\ txt[d - 1] \in Digits /\ txt[d + 1] \in Digits

\* the outcomes for texts with at most one "," or ".", and for values that are no text
ConvertCommon ==
    /\ ~IsStr(uin.text) => ConvertRaises
    /\ IsStr(uin.text) =>
          LET txt == uin.text.s
              seps == Commas(txt) \cup Dots(txt)
          IN /\ txt = <<>> => uout.res = Ok(Flt(0, 0))
             /\ (AmountText(txt) /\ seps = {}) => YieldsNumber(txt, 0)
             /\ (AmountText(txt) /\ Cardinality(seps) = 1) =>
                   YieldsNumber(txt, DigitsAfter(txt, CHOOSE k \in seps : TRUE))
             /\ (txt # <<>> /\ ~AmountText(txt)) => ConvertRaises

\* C14 as stated: spaces are stripped and "," is read as the decimal point, so
\* space-grouped digits with a decimal comma yield their number, and so does
\* a text with "." thousands separators and a "," decimal separator; the
\* empty text yields 0.0 and a text that is no number raises a value error.
C14_Original ==
    pc = "converted" =>
        /\ ConvertCommon
        /\ (IsStr(uin.text) /\ DotThousandsCommaDecimal(uin.text.s)) =>
              YieldsNumber(uin.text.s,
                           DigitsAfter(uin.text.s, CHOOSE c \in Commas(uin.text.s) : TRUE))

\* C14 (amended): spaces are stripped and "," is read as ".", so digits
\* grouped by spaces with at most one "," or "." yield their number; a text
\* with more than one "," or ".", such as "." thousands separators with a ","
\* decimal separator, raises a value error; the empty text yields 0.0 and a
\* text that is no number, or no text, raises a value error.
C14_ConvertToFloat ==
    pc = "converted" =>
        /\ ConvertCommon
        /\ (IsStr(uin.text)
              /\ Cardinality(Commas(uin.text.s) \cup Dots(uin.text.s)) > 1) => ConvertRaises

\* "1 201,21" was converted to 1201.21
C14_Witness ==
    /\ pc = "converted"
    /\ uin.text = Str(<<"1", " ", "2", "0", "1", ",", "2", "1">>)
    /\ uout.res = Ok(Flt(120121, 2))

----------------------------------------------------------------------------
(* extract_transactions and its strategies leave their arguments alone
   (checked under SpecExtract) *)

----------------------------------------------------------------------------
(* extract_transactions as one call, for callers that run it in one step *)

RECURSIVE ExtractLoop(_, _, _, _)
RECURSIVE LoopStep(_, _, _, _, _)
\* the while loop of lines 499-523 from index k on, acc the rows combined so far
ExtractLoop(tbl, k, tf, acc) ==
    IF ~LoopCond(k, TableEnd(tbl, tf)) THEN Ok(acc)
    ELSE LoopStep(InnerHandler(PairBody(tbl, k, tf).res, k), tbl, k, tf, acc)

\* the end of one iteration whose try block and handlers gave out
LoopStep(out, tbl, k, tf, acc) ==
    IF out.ok THEN ExtractLoop(tbl, k + 2, tf, Append(acc, out.val))
    ELSE Raise(OuterHandler(out.err))

\* line 525 once the loop gave body
ExtractResult(body, tbl, tf) ==
    IF ~body.ok THEN body
    ELSE Ok(empty_header(tbl, tf) \o body.val \o empty_footer(tbl, tf))

\* lines 491-525 once the size checks gave chk
ExtractChecked(chk, tbl, tf) ==
    IF ~chk.ok THEN Raise(OuterHandler(chk.err))
    ELSE ExtractResult(ExtractLoop(tbl, TableStart(tf), tf, <<>>), tbl, tf)

extract_transactions(tbl, tf) == ExtractChecked(MinRowsCheck(tbl, tf), tbl, tf)

----------------------------------------------------------------------------
(* gui.py: the window, its handlers and the worker thread of a run *)

MaxRuns == 2

Runs == 1..MaxRuns

DEFAULT_TABLE_INDEX == 3

DEFAULT_HEADER_LEN == 3

DEFAULT_FOOTER_LEN == 2

DEFAULT_ACCOUNT_INDEX == 4

\* the number of column names setup_configuration hands to the exporter
DefaultColumnCount == 10

SpinDefaults ==
    [table_index |-> DEFAULT_TABLE_INDEX, header_len |-> DEFAULT_HEADER_LEN,
     footer_len |-> DEFAULT_FOOTER_LEN, account_index |-> DEFAULT_ACCOUNT_INDEX]

\* spinbox values enumerated: the defaults, and the first table without
\* header and footer rows (all inside the spinbox ranges)
SpinChoices ==
    {SpinDefaults,
     [table_index |-> 1, header_len |-> 0, footer_len |-> 0, account_index |-> 0]}

\* the input entry: empty, a path that does not exist, an existing .docx
InputChoices == {"", "missing", "docx"}

\* the output entry: empty, or a path ending in .xlsx in an existing directory
OutputChoices == {"", "xlsx"}

\* what the existing .docx holds
GuiFile == [kind |-> "docx", tables |-> <<<<RowA, RowA>>>>]

\* processor.print: the builtin, or the custom_print closure of run w
BuiltinPrint == [fn |-> "print", run |-> 0]

custom_print(w) == [fn |-> "custom_print", run |-> w]

\* one modification of a widget (or a message box shown): what, by which
\* thread, on behalf of which run (0: none)
UiOp(op, thread, w) == [op |-> op, thread |-> thread, run |-> w]

\* a callback handed to root.after(0, ...)
Callback(op, w) == [op |-> op, run |-> w]

IdleWorker ==
    [pc |-> "idle", input |-> "", output |-> "", table_index |-> 0,
     header_len |-> 0, footer_len |-> 0, account_index |-> 0,
     stages |-> <<>>, result |-> -1, err |-> NoErr]

\* the window after DocxProcessorGUI.__init__
InitGui ==
    /\ pc = "gui"
    /\ uin = NoUnit
    /\ uout = NoUnit
    /\ UnitIdle
    /\ gui = [input |-> "", output |-> "", spin |-> SpinDefaults,
              button |-> "normal", runs |-> 0, w |-> [w \in Runs |-> IdleWorker],
              print |-> BuiltinPrint, afterq |-> <<>>, ui |-> {}]

procvars == <<pc, cfg, file, document, table, header, footer, i, transactions,
              result, err, calls, reads, written, ret, stages, uin, uout>>

\* the input entry is edited, or filled by browse_input
BrowseInput ==
    /\ \E v \in InputChoices : gui' = [gui EXCEPT !.input = v]
    /\ UNCHANGED procvars

\* the output entry is edited, or filled by browse_output
BrowseOutput ==
    /\ \E v \in OutputChoices : gui' = [gui EXCEPT !.output = v]
    /\ UNCHANGED procvars

\* the user changes the spinboxes
SetSpin ==
    /\ \E v \in SpinChoices : gui' = [gui EXCEPT !.spin = v]
    /\ UNCHANGED procvars

\* restore_defaults: runs on the event loop, as a button command
restore_defaults ==
    /\ gui' = [gui EXCEPT !.spin = SpinDefaults,
                          !.ui = @ \cup {UiOp("log", "foreground", 0)}]
    /\ UNCHANGED procvars

\* variant of ButtonDisabled: the button keeps its state
ButtonLeftAlone(b) == b

\* self.process_btn.config(state=tk.DISABLED)
ButtonDisabled(b) == "disabled"

\* process_document, the command of the process button: a disabled button
\* does not invoke its command
process_document ==
    /\ gui.button = "normal"
    /\ gui.runs < MaxRuns
    /\ IF gui.input \in {"", "missing"} \/ gui.output = ""
       THEN gui' = [gui EXCEPT !.ui = @ \cup {UiOp("showerror", "foreground", 0)}]
       ELSE LET w == gui.runs + 1
            IN gui' = [gui EXCEPT
                         !.ui = @ \cup {UiOp("clear_log", "foreground", w),
                                        UiOp("disable_button", "foreground", w)},
                         !.button = ButtonDisabled(@),
                         !.runs = w,
                         !.w[w] = [IdleWorker EXCEPT !.pc = "begin",
                                                     !.input = gui.input,
                                                     !.output = gui.output]]
    /\ UNCHANGED procvars

\* process_thread, lines 193-199: substitute print, read the spinboxes
WorkerBegin(w) ==
    /\ gui.w[w].pc = "begin"
    /\ gui' = [gui EXCEPT !.print = custom_print(w),
                          !.w[w].table_index = gui.spin.table_index - 1,
                          !.w[w].header_len = gui.spin.header_len,
                          !.w[w].footer_len = gui.spin.footer_len,
                          !.w[w].account_index = gui.spin.account_index,
                          !.w[w].pc = "log"]
    /\ UNCHANGED procvars

\* process_thread, lines 202-204: self.log(...) called by the worker itself
WorkerLog(w) ==
    /\ gui.w[w].pc = "log"
    /\ gui' = [gui EXCEPT !.ui = @ \cup {UiOp("log", "worker", w)},
                          !.w[w].pc = "config"]
    /\ UNCHANGED procvars

\* the keyword arguments of the TableFormat call at lines 213-218
GuiTableFormatArgs(loc) ==
    [header_len |-> loc.header_len, footer_len |-> loc.footer_len,
     account_cell_index |-> loc.account_index,
     transaction_row_parsing_config |-> [field_count |-> DefaultFieldCount]]

\* the fields of TableFormat: every one is required (Field(...) or no default)
TableFormatFields ==
    {"header_len", "footer_len", "account_cell_index", "debit_cell_index",
     "credit_cell_index", "transaction_row_parsing_config"}

\* pydantic's validation of TableFormat(**args)
TableFormat(args) ==
    IF TableFormatFields \subseteq DOMAIN args
    THEN Ok(args)
    ELSE Raise(Error("ValidationError", <<"Field required">>, -1))

\* what a run of the adapted main leaves: its result, the stages it reached,
\* the error it printed
RunOutcome(res, reached, e) == [result |-> res, stages |-> reached, err |-> e]

\* lines 267-283 once the export strategy gave exp
AfterGuiExport(exp) ==
    RunOutcome(IF exp.ok THEN 0 ELSE 1, <<"load", "select", "extract", "export">>, exp.err)

\* lines 257-283 once extract_transactions gave txs
AfterGuiExtract(txs, out) ==
    IF ~txs.ok THEN RunOutcome(1, <<"load", "select", "extract">>, txs.err)
    ELSE AfterGuiExport(export_to_excel(txs.val, out))

\* lines 251-283 once the table choose strategy gave tbl
AfterGuiSelect(tbl, tf, out) ==
    IF ~tbl.ok THEN RunOutcome(1, <<"load", "select">>, tbl.err)
    ELSE AfterGuiExtract(extract_transactions(tbl.val, tf), out)

\* lines 245-283 once the loading strategy gave doc
AfterGuiLoad(doc, tf, ti, out) ==
    IF ~doc.ok THEN RunOutcome(1, <<"load">>, doc.err)
    ELSE AfterGuiSelect(choose_table(doc.val, ti), tf, out)

\* the adapted main of lines 236-283: the stages run in order, the first
\* failure is printed and gives result 1
GuiPipeline(f, tf, ti, out) == AfterGuiLoad(load_xml_document(f), tf, ti, out)

\* the TableFormat the stages read, once pydantic accepted it
FormatOf(fmt) ==
    [header_len |-> fmt.header_len, footer_len |-> fmt.footer_len,
     account_cell_index |-> fmt.account_cell_index,
     debit_cell_index |-> fmt.debit_cell_index,
     credit_cell_index |-> fmt.credit_cell_index,
     field_count |-> fmt.transaction_row_parsing_config.field_count]

\* variant of RestorePrint: processor.print is left as it is
RestorePrintSkipped(p) == p

\* processor.print = original_print, the print captured at line 183
RestorePrint(p) == BuiltinPrint

\* lines 285-303 after the adapted main gave run: one log callback for each
\* custom_print, print restored, the result box scheduled
GuiAfterRun(g, w, run) ==
    [g EXCEPT
       !.w[w].stages = run.stages,
       !.w[w].result = run.result,
       !.w[w].err = run.err,
       !.print = RestorePrint(@),
       !.afterq = @ \o [k \in 1..Len(run.stages) + 1 |-> Callback("log", w)]
                    \o <<Callback(IF run.result = 0 THEN "showinfo" ELSE "showerror", w)>>,
       !.w[w].pc = "finally"]

\* process_thread, lines 207-303: build the configuration; if that succeeds
\* run the stages, restore print and schedule the result box
WorkerRun(w) ==
    /\ gui.w[w].pc = "config"
    /\ LET loc == gui.w[w]
           fmt == TableFormat(GuiTableFormatArgs(loc))
       IN IF ~fmt.ok
          THEN gui' = [gui EXCEPT !.w[w].err = fmt.err, !.w[w].pc = "except"]
          ELSE IF loc.input # "docx" \/ loc.output \notin {"xlsx", "csv"}
          THEN gui' = [gui EXCEPT
                         !.w[w].err = Error("ValueError", <<"Error in configuration setup">>, -1),
                         !.w[w].pc = "except"]
          ELSE gui' = GuiAfterRun(gui, w,
                                  GuiPipeline(GuiFile, FormatOf(fmt.val), loc.table_index,
                                              [ncols |-> DefaultColumnCount,
                                               suffix |-> loc.output]))
    /\ UNCHANGED procvars

\* process_thread, lines 305-312: the outer except clause
WorkerExcept(w) ==
    /\ gui.w[w].pc = "except"
    /\ gui' = [gui EXCEPT !.print = RestorePrint(@),
                          !.afterq = @ \o <<Callback("log", w), Callback("showerror", w)>>,
                          !.w[w].pc = "finally"]
    /\ UNCHANGED procvars

\* process_thread, lines 314-316: the finally clause, then the thread ends
WorkerFinally(w) ==
    /\ gui.w[w].pc = "finally"
    /\ gui' = [gui EXCEPT !.afterq = @ \o <<Callback("enable_button", w)>>,
                          !.w[w].pc = "ended"]
    /\ UNCHANGED procvars

\* the event loop runs the oldest callback scheduled with root.after(0, ...)
RunCallback ==
    /\ gui.afterq # <<>>
    /\ LET cb == Head(gui.afterq)
       IN gui' = [gui EXCEPT
                    !.afterq = Tail(@),
                    !.ui = @ \cup {UiOp(cb.op, "foreground", cb.run)},
                    !.button = IF cb.op = "enable_button" THEN "normal" ELSE @]
    /\ UNCHANGED procvars

WorkerStep ==
    \E w \in Runs :
        \/ WorkerBegin(w)
        \/ WorkerLog(w)
        \/ WorkerRun(w)
        \/ WorkerExcept(w)
        \/ WorkerFinally(w)

NextGui ==
    \/ BrowseInput
    \/ BrowseOutput
    \/ SetSpin
    \/ restore_defaults
    \/ process_document
    \/ WorkerStep
    \/ RunCallback

SpecGui == InitGui /\ [][NextGui]_vars

\* the worker thread keeps running once started, and mainloop keeps serving
\* its queue
SpecGuiFair == SpecGui /\ WF_vars(WorkerStep) /\ WF_vars(RunCallback)

----------------------------------------------------------------------------
(* Properties of a run started from the window (checked under SpecGui) *)

\* the runs whose worker thread has started and not ended
ActiveRuns == {w \in Runs : gui.w[w].pc \notin {"idle", "ended"}}

\* C16: every widget modification and message box caused by a run is made by
\* the foreground event loop; the worker thread modifies no widget itself.
C16_ForegroundOnly ==
    \A u \in gui.ui : u.run \in Runs => u.thread = "foreground"

\* C17: at most one run is in progress at any time: while a worker has not
\* finished the button is disabled, so no second worker starts, and
\* processor.print is the builtin or the substitute of the one running worker.
C17_OneRunAtATime ==
    /\ Cardinality(ActiveRuns) <= 1
    /\ ActiveRuns # {} => gui.button = "disabled"
    /\ \A w \in Runs :
          gui.print = custom_print(w) => w \in ActiveRuns

\* a second run is in progress, with its print substituted, after the first
\* has ended and the button was enabled again
C17_Witness ==
    \E v, w \in Runs :
        /\ gui.w[v].pc = "ended"
        /\ gui.w[w].pc = "log"
        /\ gui.print = custom_print(w)
        /\ UiOp("enable_button", "foreground", v) \in gui.ui

\* C18: a run with an existing .docx input, a valid output path and spinbox
\* values in range reaches the pipeline stages with the UI settings: building
\* the configuration does not end the run before the load stage, the table is
\* selected, and with the first table selected the extractor runs.
C18_StagesReached ==
    \A w \in Runs :
        (gui.w[w].pc = "ended" /\ gui.w[w].input = "docx" /\ gui.w[w].output = "xlsx") =>
            /\ Len(gui.w[w].stages) >= 2
            /\ gui.w[w].stages[1] = "load"
            /\ gui.w[w].stages[2] = "select"
            /\ gui.w[w].table_index = 0 => Len(gui.w[w].stages) >= 3

\* the callback that enables the button for run w is in the queue, or has run
EnableScheduled(w) ==
    \/ \E k \in 1..Len(gui.afterq) : gui.afterq[k] = Callback("enable_button", w)
    \/ UiOp("enable_button", "foreground", w) \in gui.ui

RunRestored ==
    \A w \in Runs :
        /\ gui.w[w].pc = "finally" => gui.print = BuiltinPrint
        /\ gui.w[w].pc = "ended" => EnableScheduled(w)

\* C19: every started run comes to its end, whatever way it takes; before
\* the worker ends processor.print is the original print again, and when it
\* has ended the callback enabling the process button is scheduled.
C19_RunRestoresState ==
    /\ []RunRestored
    /\ \A w \in Runs : (gui.w[w].pc = "begin") ~> (gui.w[w].pc = "ended")

\* a run that failed building its configuration has ended: print is the
\* original, the enabling callback waits in the queue
C19_Witness ==
    \E w \in Runs :
        /\ gui.w[w].pc = "ended"
        /\ gui.w[w].err.cls = "ValidationError"
        /\ gui.print = BuiltinPrint
        /\ gui.button = "disabled"
        /\ Callback("enable_button", w) = gui.afterq[Len(gui.afterq)]

====
